---- MODULE Spec2Model ----
(***************************************************************************)
(* PNG chunk codec of pngmi: ChunkType (src/src/chunk_type.rs) and Chunk   *)
(* (src/src/chunk.rs).                                                     *)
(*                                                                         *)
(* Bytes are integers 0..255 and byte buffers are sequences of bytes.  A   *)
(* u32 is a record [hi, lo] of its two 16-bit halves (value hi*2^16 + lo), *)
(* so that all 32 bits are kept although TLC's integers stop at 2^31 - 1.  *)
(* A Rust slice value[a..b] (0-based, b exclusive) is SubSeq(value, a+1, b)*)
(* and panics when b > len or a > b.                                       *)
(***************************************************************************)
EXTENDS Integers, Sequences, FiniteSets, TLC

VARIABLES
    pc,        \* position of the caller driving the codec
    typeIn,    \* the 4 bytes offered to ChunkType::try_from
    dataIn,    \* the payload offered to Chunk::new
    ctype,     \* result of ChunkType::try_from(typeIn)
    flags,     \* results of the five flag queries on ctype
    chunk,     \* the value built by Chunk::new
    rendered,  \* result of data_as_string() / Display::fmt on chunk
    buf,       \* the byte buffer offered to Chunk::try_from
    edit,      \* what happened to buf after as_bytes() produced it
    parsed,    \* result of Chunk::try_from(buf)
    prevBuf,   \* buf before trailing bytes were appended
    prev,      \* result of Chunk::try_from(prevBuf)
    out        \* as_bytes() of the parsed chunk

vars == <<pc, typeIn, dataIn, ctype, flags, chunk, rendered, buf, edit,
          parsed, prevBuf, prev, out>>

-----------------------------------------------------------------------------
(* Bounds of the model *)

\* longest generated payload, in bytes
MaxData == 2

\* longest sequence of trailing bytes appended to a buffer
MaxTrail == 1

-----------------------------------------------------------------------------
(* Results: Ok(v), Err(msg), and a panic (the thread unwinds, no value) *)

None == [kind |-> "None"]
Ok(v) == [kind |-> "Ok", val |-> v]
Err(m) == [kind |-> "Err", msg |-> m]
Panic == [kind |-> "Panic"]

-----------------------------------------------------------------------------
(* u32 arithmetic on 16-bit halves *)

RECURSIVE BitXor(_, _)
BitXor(a, b) ==
    IF a = 0 THEN b
    ELSE IF b = 0 THEN a
    ELSE ((a + b) % 2) + 2 * BitXor(a \div 2, b \div 2)

RECURSIVE BitAnd(_, _)
BitAnd(a, b) ==
    IF a = 0 \/ b = 0 THEN 0
    ELSE ((a % 2) * (b % 2)) + 2 * BitAnd(a \div 2, b \div 2)

\* a ^ b on bytes, tabulated once
Xor8Table == [a \in 0..255 |-> [b \in 0..255 |-> BitXor(a, b)]]

Xor16(a, b) ==
    256 * Xor8Table[a \div 256][b \div 256] + Xor8Table[a % 256][b % 256]

U32Xor(a, b) == [hi |-> Xor16(a.hi, b.hi), lo |-> Xor16(a.lo, b.lo)]

U32Shr1(a) == [hi |-> a.hi \div 2, lo |-> (a.lo \div 2) + (a.hi % 2) * 32768]

U32Shr8(a) == [hi |-> a.hi \div 256, lo |-> (a.lo \div 256) + (a.hi % 256) * 256]

\* the bytes taken least significant first
from_le_bytes(b) == [hi |-> b[4] * 256 + b[3], lo |-> b[2] * 256 + b[1]]

\* u32::from_be_bytes
from_be_bytes(b) == [hi |-> b[1] * 256 + b[2], lo |-> b[3] * 256 + b[4]]

\* u32::to_be_bytes
to_be_bytes(u) == <<u.hi \div 256, u.hi % 256, u.lo \div 256, u.lo % 256>>

\* `n as u32` for a usize n: the low 32 bits
as_u32(n) == [hi |-> (n \div 65536) % 65536, lo |-> n % 65536]

\* `u as usize` on a 64-bit target.  Values of 2^30 and more are all mapped
\* to 2^30: they are only ever compared with buffer sizes, which are far
\* smaller, so every bounds check is decided as on the real value.
as_usize(u) == IF u.hi < 16384 THEN u.hi * 65536 + u.lo ELSE 16384 * 65536

\* self.length + 12 in u32 (wrapping; a debug build panics instead, which
\* needs a payload of at least 2^32 - 12 bytes)
u32_add(u, n) ==
    LET lo == u.lo + n
    IN  [hi |-> (u.hi + lo \div 65536) % 65536, lo |-> lo % 65536]

-----------------------------------------------------------------------------
(* crc::Crc::<u32>::new(&crc::CRC_32_ISO_HDLC): reflected CRC-32, polynomial *)
(* 0x04C11DB7 (reflected 0xEDB88320), init and xorout 0xFFFFFFFF             *)

crc_ones == [hi |-> 65535, lo |-> 65535]

crc_poly_reflected == [hi |-> 60856, lo |-> 33568]

crc_shift(c) ==
    IF c.lo % 2 = 1 THEN U32Xor(U32Shr1(c), crc_poly_reflected) ELSE U32Shr1(c)

\* the crate's 256-entry lookup table: entry i is i shifted eight times
crc_table ==
    [i \in 0..255 |->
        crc_shift(crc_shift(crc_shift(crc_shift(
        crc_shift(crc_shift(crc_shift(crc_shift([hi |-> 0, lo |-> i]))))))))]

\* one input byte: crc = table[(crc ^ b) & 0xFF] ^ (crc >> 8)
crc_byte(c, b) == U32Xor(crc_table[Xor8Table[c.lo % 256][b]], U32Shr8(c))

\* crc.digest()
digest_new == crc_ones

RECURSIVE digest_update(_, _)
\* digest.update(bytes); the test on x only makes TLC evaluate each byte's
\* step before the next one
digest_update(c, bytes) ==
    IF bytes = <<>> THEN c
    ELSE LET x == crc_byte(c, Head(bytes))
         IN  IF x.lo >= 0 THEN digest_update(x, Tail(bytes)) ELSE x

\* digest.finalize()
digest_finalize(c) == U32Xor(c, crc_ones)

-----------------------------------------------------------------------------
(* ChunkType *)

\* only the two ends of the range are tested: 91..96 pass
byte_check_range(b) == b < 65 \/ b > 122

\* the closure byte_check of ChunkType::try_from: TRUE for a byte that is
\* NOT acceptable
byte_check(b) == b < 65 \/ b > 122 \/ (b > 90 /\ b < 97)

\* impl TryFrom<[u8; 4]> for ChunkType
ChunkType_try_from(value) ==
    IF \E i \in 1..4 : byte_check(value[i])
    THEN Err("Invalid chunk payload")
    ELSE Ok([chunk_type_bytes |-> value])

\* ChunkType::bytes
bytes(t) == t.chunk_type_bytes

\* ChunkType::iter
iter(t) == t.chunk_type_bytes

is_critical(t) == BitAnd(t.chunk_type_bytes[1], 32) = 0

is_public(t) == BitAnd(t.chunk_type_bytes[2], 32) = 0

is_reserved_bit_valid(t) == BitAnd(t.chunk_type_bytes[3], 32) = 0

\* the masked bit compared with 1 instead of 0
is_safe_to_copy_eq1(t) == BitAnd(t.chunk_type_bytes[4], 32) = 1

is_safe_to_copy(t) == BitAnd(t.chunk_type_bytes[4], 32) # 0

is_valid(t) == is_reserved_bit_valid(t)

-----------------------------------------------------------------------------
(* Chunk *)

LENGTH_BYTES_LEN == 4

CHUNK_TYPE_BYTES_LEN == 4

\* the length field is fed to the digest as well
Chunk_new_with_length(chunk_type, data) ==
    LET lengthBytes == to_be_bytes(as_u32(Len(data)))
        digest == digest_update(digest_update(digest_update(digest_new, lengthBytes),
                                              bytes(chunk_type)), data)
    IN  [length |-> as_u32(Len(data)),
         chunk_type |-> chunk_type,
         data |-> data,
         checksum |-> digest_finalize(digest)]

\* Chunk::new
Chunk_new(chunk_type, data) ==
    LET digest == digest_update(digest_update(digest_new, bytes(chunk_type)), data)
    IN  [length |-> as_u32(Len(data)),
         chunk_type |-> chunk_type,
         data |-> data,
         checksum |-> digest_finalize(digest)]

\* the checksum field is not counted
overall_length_8(c) == u32_add(c.length, 8)

\* Chunk::overall_length
overall_length(c) == u32_add(c.length, 12)

\* both integers written least significant byte first
as_bytes_le(c) ==
    LET le(u) == <<u.lo % 256, u.lo \div 256, u.hi % 256, u.hi \div 256>>
    IN  le(c.length) \o iter(c.chunk_type) \o c.data \o le(c.checksum)

\* Chunk::as_bytes
as_bytes(c) ==
    to_be_bytes(c.length) \o iter(c.chunk_type) \o c.data \o to_be_bytes(c.checksum)

\* read_4_bytes: the assert_eq!, the slice and the unwrap each panic
read_4_bytes(slice, start, end) ==
    IF end - start # 4 THEN Panic
    ELSE IF start > end \/ end > Len(slice) THEN Panic
    ELSE Ok(SubSeq(slice, start + 1, end))

\* only the upper half of the checksum is compared
checksum_mismatch_hi(c, checksum) == c.checksum.hi # checksum.hi

\* chunk.checksum != checksum
checksum_mismatch(c, checksum) == c.checksum # checksum

\* chunk.length != length
length_mismatch(c, length) == c.length # length

\* the payload is taken to run up to the last four bytes of the buffer, which
\* are read as the checksum, whatever the length field says
Chunk_try_from_to_end(value) ==
    IF Len(value) < 12 THEN Panic
    ELSE
    LET length == from_be_bytes(SubSeq(value, 1, 4))
        chunk_type == ChunkType_try_from(SubSeq(value, 5, 8))
        data == SubSeq(value, 9, Len(value) - 4)
        checksum == from_be_bytes(SubSeq(value, Len(value) - 3, Len(value)))
    IN  IF chunk_type.kind = "Err" THEN chunk_type
        ELSE LET c == Chunk_new(chunk_type.val, data)
             IN  IF c.checksum # checksum
                 THEN Err("Incoming check does not match computed checksum")
                 ELSE IF c.length # length
                 THEN Err("Incoming length does not match computed length")
                 ELSE Ok(c)

\* impl TryFrom<&[u8]> for Chunk
Chunk_try_from(value) ==
    LET lengthBytes == read_4_bytes(value, 0, LENGTH_BYTES_LEN)
    IN  IF lengthBytes.kind = "Panic" THEN Panic
        ELSE
        LET length == from_be_bytes(lengthBytes.val)
            typeBytes == read_4_bytes(value, CHUNK_TYPE_BYTES_LEN,
                                      CHUNK_TYPE_BYTES_LEN + LENGTH_BYTES_LEN)
        IN  IF typeBytes.kind = "Panic" THEN Panic
            ELSE
            LET chunk_type == ChunkType_try_from(typeBytes.val)
            IN  IF chunk_type.kind = "Err" THEN chunk_type
                ELSE
                LET start == CHUNK_TYPE_BYTES_LEN + LENGTH_BYTES_LEN
                    data_start == start
                    data_end == start + as_usize(length)
                IN  IF data_end > Len(value) THEN Panic
                    ELSE
                    LET data == SubSeq(value, data_start + 1, data_end)
                        checksumBytes == read_4_bytes(value, data_end, data_end + 4)
                    IN  IF checksumBytes.kind = "Panic" THEN Panic
                        ELSE
                        LET checksum == from_be_bytes(checksumBytes.val)
                            c == Chunk_new(chunk_type.val, data)
                        IN  IF checksum_mismatch(c, checksum)
                            THEN Err("Incoming check does not match computed checksum")
                            ELSE IF length_mismatch(c, length)
                            THEN Err("Incoming length does not match computed length")
                            ELSE Ok(c)

-----------------------------------------------------------------------------
(* Text *)

\* std String::from_utf8's validation (the well-formed byte sequences of
\* Unicode table 3-7), from byte i (1-based) on
RECURSIVE utf8_valid(_, _)
utf8_valid(v, i) ==
    LET n == Len(v)
        cont(j) == j <= n /\ v[j] >= 128 /\ v[j] <= 191
        within(j, a, b) == j <= n /\ v[j] >= a /\ v[j] <= b
        b0 == v[i]
    IN  IF i > n THEN TRUE
        ELSE IF b0 < 128 THEN utf8_valid(v, i + 1)
        ELSE IF b0 >= 194 /\ b0 <= 223 THEN cont(i + 1) /\ utf8_valid(v, i + 2)
        ELSE IF b0 = 224
            THEN within(i + 1, 160, 191) /\ cont(i + 2) /\ utf8_valid(v, i + 3)
        ELSE IF (b0 >= 225 /\ b0 <= 236) \/ b0 = 238 \/ b0 = 239
            THEN cont(i + 1) /\ cont(i + 2) /\ utf8_valid(v, i + 3)
        ELSE IF b0 = 237
            THEN within(i + 1, 128, 159) /\ cont(i + 2) /\ utf8_valid(v, i + 3)
        ELSE IF b0 = 240
            THEN within(i + 1, 144, 191) /\ cont(i + 2) /\ cont(i + 3)
                 /\ utf8_valid(v, i + 4)
        ELSE IF b0 >= 241 /\ b0 <= 243
            THEN cont(i + 1) /\ cont(i + 2) /\ cont(i + 3) /\ utf8_valid(v, i + 4)
        ELSE IF b0 = 244
            THEN within(i + 1, 128, 143) /\ cont(i + 2) /\ cont(i + 3)
                 /\ utf8_valid(v, i + 4)
        ELSE FALSE

\* String::from_utf8(self.data.clone()): the String holds the same bytes
from_utf8(v) ==
    IF utf8_valid(v, 1) THEN Ok([utf8 |-> v])
    ELSE Err("invalid utf-8 sequence")

\* Chunk::data_as_string: map_err(PngError::from) keeps the error an Err
data_as_string(c) == from_utf8(c.data)

\* impl Display for Chunk: unwrap() panics on the Err of from_utf8
Chunk_fmt(c) ==
    LET s == from_utf8(c.data)
    IN  IF s.kind = "Err" THEN Panic ELSE Ok(s.val)

\* impl FromStr for ChunkType: <[u8; 4]>::try_from(s.as_bytes()).unwrap()
\* panics unless s is 4 bytes long
from_str(s) == IF Len(s) # 4 THEN Panic ELSE ChunkType_try_from(s)

-----------------------------------------------------------------------------
(* Inputs *)

RuSt == <<82, 117, 83, 116>>

Ru1t == <<82, 117, 49, 116>>

SecretMessage ==
    <<84, 104, 105, 115, 32, 105, 115, 32, 119, 104, 101, 114, 101, 32, 121,
      111, 117, 114, 32, 115, 101, 99, 114, 101, 116, 32, 109, 101, 115, 115,
      97, 103, 101, 32, 119, 105, 108, 108, 32, 98, 101, 33>>

\* the sixteen upper/lower case spellings of "rust"
CaseVariants ==
    {<<a, b, c, d>> : a \in {82, 114}, b \in {85, 117}, c \in {83, 115}, d \in {84, 116}}

\* "RuSt" with one byte replaced by any byte value
OneByteOff == {[RuSt EXCEPT ![i] = b] : i \in 1..4, b \in 0..255}

\* every byte value at each position, and every mix of the bytes next to the
\* four edges of the two letter ranges
TypeInputs ==
    CaseVariants \cup OneByteOff \cup {<<a, b, c, d>> : a, b, c, d \in {64, 65, 122, 123}}
        \cup [1..4 -> {90, 91, 96, 97}]

\* strings for from_str, some not 4 bytes long
StrInputs == {RuSt, Ru1t, <<82, 117, 83>>, <<82, 117, 83, 116, 115>>, <<>>}

IEND == <<73, 69, 78, 68>>

\* the types chunks are built with, one of them not a type
CoreTypes == {RuSt, IEND, Ru1t}

\* payload bytes: 'A', the two bytes of U+00E9 (each of them alone is not
\* UTF-8), and a byte no UTF-8 text holds
DataBytes == {65, 195, 169, 255}

RECURSIVE SeqsUpTo(_, _)
SeqsUpTo(S, n) ==
    IF n = 0 THEN {<<>>}
    ELSE LET shorter == SeqsUpTo(S, n - 1)
         IN  shorter \cup {Append(s, x) : s \in shorter, x \in S}

Payloads == SeqsUpTo(DataBytes, MaxData) \cup {SecretMessage}

TrailBytes == {0, 255}

Trails == SeqsUpTo(TrailBytes, MaxTrail) \ {<<>>}

-----------------------------------------------------------------------------
(* CRC-32/ISO-HDLC as its parameters define it: the message is read bit by  *)
(* bit, each byte least significant bit first (refin), into a 32-bit        *)
(* register that starts as all ones (init) and is divided by the generator  *)
(* x^32 + 0x04C11DB7; the remainder is complemented (xorout) and its bits   *)
(* are reversed (refout).  reg[1] is the coefficient of x^31.               *)

CrcGenerator ==
    <<0, 0, 0, 0, 0, 1, 0, 0,   1, 1, 0, 0, 0, 0, 0, 1,
      0, 0, 0, 1, 1, 1, 0, 1,   1, 0, 1, 1, 0, 1, 1, 1>>

RefFeed(reg, m) ==
    LET top == (reg[1] + m) % 2
    IN  [i \in 1..32 |->
            ((IF i < 32 THEN reg[i + 1] ELSE 0) + top * CrcGenerator[i]) % 2]

RECURSIVE RefFeedByte(_, _, _)
RefFeedByte(reg, b, k) ==
    IF k = 8 THEN reg
    ELSE LET r == RefFeed(reg, (b \div (2 ^ k)) % 2)
         IN  IF r[1] >= 0 THEN RefFeedByte(r, b, k + 1) ELSE r

RECURSIVE RefFeedAll(_, _)
RefFeedAll(reg, msg) ==
    IF msg = <<>> THEN reg
    ELSE LET r == RefFeedByte(reg, Head(msg), 0)
         IN  IF r[1] >= 0 THEN RefFeedAll(r, Tail(msg)) ELSE r

\* bits k = from..to of the result, bit k being the complement of reg[k + 1]
RECURSIVE RefValue(_, _, _)
RefValue(reg, from, to) ==
    IF from > to THEN 0
    ELSE (1 - reg[from + 1]) + 2 * RefValue(reg, from + 1, to)

RefCrc32(msg) ==
    LET reg == RefFeedAll([i \in 1..32 |-> 1], msg)
    IN  [hi |-> RefValue(reg, 16, 31), lo |-> RefValue(reg, 0, 15)]

\* the four bytes of n < 2^31, most significant first
RefBigEndian(n) ==
    <<n \div 16777216, (n \div 65536) % 256, (n \div 256) % 256, n % 256>>

\* the checksum field another encoder writes for type and payload
RefCrcField(msg) ==
    LET c == RefCrc32(msg)
    IN  <<c.hi \div 256, c.hi % 256, c.lo \div 256, c.lo % 256>>

-----------------------------------------------------------------------------
(* The caller: one value is built and then used, serialized, corrupted and  *)
(* parsed back                                                              *)

NoEdit == [kind |-> "none", at |-> 0]

InitWith(t, d) ==
    /\ pc = "start"
    /\ typeIn = t
    /\ dataIn = d
    /\ ctype = None
    /\ flags = None
    /\ chunk = None
    /\ rendered = None
    /\ buf = <<>>
    /\ edit = NoEdit
    /\ parsed = None
    /\ prevBuf = <<>>
    /\ prev = None
    /\ out = None

Init == \E t \in CoreTypes, d \in Payloads : InitWith(t, d)

InitType == \E t \in TypeInputs \cup StrInputs : InitWith(t, <<>>)

\* ChunkType::try_from(typeIn); the argument type [u8; 4] fixes the size
ChunkTypeTryFrom ==
    /\ pc = "start"
    /\ Len(typeIn) = 4
    /\ ctype' = ChunkType_try_from(typeIn)
    /\ pc' = "typed"
    /\ UNCHANGED <<typeIn, dataIn, flags, chunk, rendered, buf, edit, parsed,
                   prevBuf, prev, out>>

\* ChunkType::from_str(typeIn)
ChunkTypeFromStr ==
    /\ pc = "start"
    /\ ctype' = from_str(typeIn)
    /\ pc' = "typed_str"
    /\ UNCHANGED <<typeIn, dataIn, flags, chunk, rendered, buf, edit, parsed,
                   prevBuf, prev, out>>

\* the five flag queries on the constructed ChunkType
QueryFlags ==
    /\ pc \in {"typed", "typed_str"}
    /\ ctype.kind = "Ok"
    /\ flags' = [kind |-> "Flags",
                 is_valid |-> is_valid(ctype.val),
                 is_critical |-> is_critical(ctype.val),
                 is_public |-> is_public(ctype.val),
                 is_reserved_bit_valid |-> is_reserved_bit_valid(ctype.val),
                 is_safe_to_copy |-> is_safe_to_copy(ctype.val)]
    /\ pc' = "flags"
    /\ UNCHANGED <<typeIn, dataIn, ctype, chunk, rendered, buf, edit, parsed,
                   prevBuf, prev, out>>

\* Chunk::new(ctype, dataIn)
ChunkNew ==
    /\ pc = "typed"
    /\ ctype.kind = "Ok"
    /\ chunk' = Chunk_new(ctype.val, dataIn)
    /\ pc' = "built"
    /\ UNCHANGED <<typeIn, dataIn, ctype, flags, rendered, buf, edit, parsed,
                   prevBuf, prev, out>>

\* chunk.data_as_string()
DataAsString ==
    /\ pc = "built"
    /\ rendered' = [op |-> "data_as_string", res |-> data_as_string(chunk)]
    /\ pc' = "rendered"
    /\ UNCHANGED <<typeIn, dataIn, ctype, flags, chunk, buf, edit, parsed,
                   prevBuf, prev, out>>

\* format!("{}", chunk)
Display ==
    /\ pc = "built"
    /\ rendered' = [op |-> "fmt", res |-> Chunk_fmt(chunk)]
    /\ pc' = "rendered"
    /\ UNCHANGED <<typeIn, dataIn, ctype, flags, chunk, buf, edit, parsed,
                   prevBuf, prev, out>>

\* chunk.as_bytes()
AsBytes ==
    /\ pc = "built"
    /\ buf' = as_bytes(chunk)
    /\ pc' = "bytes"
    /\ UNCHANGED <<typeIn, dataIn, ctype, flags, chunk, rendered, edit, parsed,
                   prevBuf, prev, out>>

Pow2(k) == 2 ^ k

\* the buffer is damaged on its way: bit i (0 = the least significant bit of
\* the first byte) is flipped
FlipBit ==
    /\ pc = "bytes"
    /\ \E i \in 0..(8 * Len(buf) - 1) :
         LET j == (i \div 8) + 1
         IN  /\ buf' = [buf EXCEPT ![j] = BitXor(buf[j], Pow2(i % 8))]
             /\ edit' = [kind |-> "flip", at |-> i]
    /\ pc' = "edited"
    /\ UNCHANGED <<typeIn, dataIn, ctype, flags, chunk, rendered, parsed,
                   prevBuf, prev, out>>

\* only the first n bytes of the buffer arrive
Truncate ==
    /\ pc = "bytes"
    /\ \E n \in 0..(Len(buf) - 1) :
         /\ buf' = SubSeq(buf, 1, n)
         /\ edit' = [kind |-> "truncate", at |-> n]
    /\ pc' = "edited"
    /\ UNCHANGED <<typeIn, dataIn, ctype, flags, chunk, rendered, parsed,
                   prevBuf, prev, out>>

\* length fields another writer may put before a payload d: the right one,
\* zero, one too many, 256 times too many, and two that are far too large
LengthFields(d) ==
    {RefBigEndian(Len(d)), <<0, 0, 0, 0>>, RefBigEndian(Len(d) + 1),
     RefBigEndian(256 * Len(d)), <<128, 0, 0, 0>>, <<255, 255, 255, 255>>}

ChecksumFields(t, d) == {RefCrcField(t \o d), <<0, 0, 0, 0>>}

\* the buffer comes from another encoder (as the tests build theirs):
\* length field, typeIn, dataIn, checksum field
ForeignBuffer ==
    /\ pc = "start"
    /\ Len(typeIn) = 4
    /\ \E lf \in LengthFields(dataIn), cs \in ChecksumFields(typeIn, dataIn) :
         buf' = lf \o typeIn \o dataIn \o cs
    /\ edit' = [kind |-> "foreign", at |-> 0]
    /\ pc' = "edited"
    /\ UNCHANGED <<typeIn, dataIn, ctype, flags, chunk, rendered, parsed,
                   prevBuf, prev, out>>

\* Chunk::try_from(buf)
ChunkTryFrom ==
    /\ pc \in {"bytes", "edited", "trailing"}
    /\ parsed' = Chunk_try_from(buf)
    /\ pc' = IF pc = "trailing" THEN "parsed_trailing" ELSE "parsed"
    /\ UNCHANGED <<typeIn, dataIn, ctype, flags, chunk, rendered, buf, edit,
                   prevBuf, prev, out>>

\* the caller hands the same bytes again, followed by more bytes
AppendTrailing ==
    /\ pc = "parsed"
    /\ \E t \in Trails : buf' = buf \o t
    /\ prevBuf' = buf
    /\ prev' = parsed
    /\ parsed' = None
    /\ pc' = "trailing"
    /\ UNCHANGED <<typeIn, dataIn, ctype, flags, chunk, rendered, edit, out>>

\* as_bytes() of the chunk that Chunk::try_from returned
Reserialize ==
    /\ pc \in {"parsed", "parsed_trailing"}
    /\ parsed.kind = "Ok"
    /\ out' = Ok(as_bytes(parsed.val))
    /\ pc' = IF pc = "parsed" THEN "reserialized" ELSE "reserialized_trailing"
    /\ UNCHANGED <<typeIn, dataIn, ctype, flags, chunk, rendered, buf, edit,
                   parsed, prevBuf, prev>>

Next ==
    \/ ChunkTypeTryFrom
    \/ ChunkNew
    \/ DataAsString
    \/ Display
    \/ AsBytes
    \/ ForeignBuffer
    \/ FlipBit
    \/ Truncate
    \/ ChunkTryFrom
    \/ AppendTrailing
    \/ Reserialize

Spec == Init /\ [][Next]_vars

NextType == ChunkTypeTryFrom \/ ChunkTypeFromStr \/ QueryFlags

SpecType == InitType /\ [][NextType]_vars

-----------------------------------------------------------------------------
(* What the claims speak of *)

Letters == (65..90) \cup (97..122)

\* bit 5 (mask 0x20) of byte b
Bit5(b) == (b \div 32) % 2

\* the value of a u32 below 2^31
U32Is(u, n) == u.hi < 32768 /\ u.hi * 65536 + u.lo = n

\* the length field of b declares L < 65536 and b holds at least 12 + L bytes
LongEnough(b) ==
    /\ Len(b) >= 12
    /\ b[1] = 0 /\ b[2] = 0
    /\ Len(b) >= 12 + 256 * b[3] + b[4]

\* b holds exactly 12 + L bytes
ExactlySized(b) == LongEnough(b) /\ Len(b) = 12 + 256 * b[3] + b[4]

DeclaredLength(b) == 256 * b[3] + b[4]

ChecksumMismatch == Err("Incoming check does not match computed checksum")

LengthMismatch == Err("Incoming length does not match computed length")

SameChunk(a, b) ==
    /\ a.length = b.length
    /\ bytes(a.chunk_type) = bytes(b.chunk_type)
    /\ a.data = b.data
    /\ a.checksum = b.checksum

\* C1: parsing as_bytes() of Chunk::new(t, d) succeeds and gives a chunk with
\* the length, type bytes, payload and checksum of Chunk::new(t, d); with the
\* empty payload its overall_length() is 12.
RoundTripFromValue ==
    (pc = "parsed" /\ edit = NoEdit) =>
        /\ parsed.kind = "Ok"
        /\ SameChunk(parsed.val, chunk)
        /\ parsed.val.data = dataIn
        /\ (dataIn = <<>> => U32Is(overall_length(parsed.val), 12))

RoundTripFromValueWitness ==
    /\ pc = "parsed" /\ edit = NoEdit
    /\ dataIn = <<>>
    /\ parsed.kind = "Ok"

\* C2: when a buffer of exactly 12 + L bytes parses, as_bytes() of the parsed
\* chunk is that buffer, byte for byte.
RoundTripFromBytes ==
    (pc \in {"reserialized", "reserialized_trailing"} /\ ExactlySized(buf)) =>
        out = Ok(buf)

RoundTripFromBytesWitness ==
    /\ pc = "reserialized"
    /\ edit.kind = "foreign"
    /\ ExactlySized(buf)
    /\ Len(buf) = 12 + MaxData

\* C3 (as claimed): parsing a buffer shorter than 12 + L bytes returns an Err
\* and never panics.
TooShortIsErr ==
    (pc \in {"parsed", "parsed_trailing"} /\ ~LongEnough(buf)) =>
        parsed.kind = "Err"

\* C4: with one bit of the checksum field of as_bytes() flipped, parse returns
\* the checksum-mismatch error; and so it does for every buffer that is long
\* enough and has letters as its type whose checksum field is not the CRC of
\* its type and payload (stated by contraposition: when such a buffer gets
\* any other answer, its checksum field is that CRC).
CorruptionDetected ==
    /\ (pc = "parsed" /\ edit.kind = "flip" /\ edit.at >= 8 * (Len(buf) - 4)) =>
            parsed = ChecksumMismatch
    /\ (/\ pc \in {"parsed", "parsed_trailing"}
        /\ LongEnough(buf)
        /\ \A i \in 5..8 : buf[i] \in Letters
        /\ parsed # ChecksumMismatch) =>
            SubSeq(buf, 9 + DeclaredLength(buf), 12 + DeclaredLength(buf))
              = RefCrcField(SubSeq(buf, 5, 8 + DeclaredLength(buf)))

CorruptionDetectedWitness ==
    /\ pc = "parsed"
    /\ edit = [kind |-> "flip", at |-> 8 * Len(buf) - 1]
    /\ Len(buf) = 12 + MaxData
    /\ parsed = ChecksumMismatch

\* C5: ChunkType::try_from succeeds exactly when all 4 bytes are ASCII
\* letters; then bytes() is the input, and otherwise the error is "Invalid
\* chunk payload".
LettersOnly ==
    pc = "typed" =>
        /\ ctype.kind = "Ok" <=> \A i \in 1..4 : typeIn[i] \in Letters
        /\ ctype.kind = "Ok" => bytes(ctype.val) = typeIn
        /\ ctype.kind # "Ok" => ctype = Err("Invalid chunk payload")

LettersOnlyWitness ==
    /\ pc = "typed"
    /\ typeIn = <<82, 117, 96, 116>>
    /\ ctype.kind = "Err"

\* C6: the checksum of a chunk from Chunk::new or from a successful parse is
\* CRC-32/ISO-HDLC of its type bytes followed by its payload; for "RuSt" and
\* the secret message it is 2882656334 = 43985 * 65536 + 55374 and the length
\* is 42.
ChecksumInvariant ==
    /\ pc = "built" =>
          /\ chunk.checksum = RefCrc32(typeIn \o dataIn)
          /\ (typeIn = RuSt /\ dataIn = SecretMessage) =>
                /\ chunk.checksum = [hi |-> 43985, lo |-> 55374]
                /\ chunk.length = [hi |-> 0, lo |-> 42]
    /\ (pc \in {"parsed", "parsed_trailing"} /\ parsed.kind = "Ok") =>
          parsed.val.checksum
            = RefCrc32(bytes(parsed.val.chunk_type) \o parsed.val.data)

ChecksumInvariantWitness ==
    /\ pc = "built"
    /\ typeIn = RuSt /\ dataIn = SecretMessage
    /\ chunk.checksum = [hi |-> 43985, lo |-> 55374]

TextIsChecked ==
    pc = "rendered" =>
        IF utf8_valid(dataIn, 1)
        THEN rendered.res = Ok([utf8 |-> dataIn])
        ELSE rendered.res.kind = "Err"

\* C9: bytes after the first 12 + L do not change what parse returns, and
\* as_bytes() of the parsed chunk is the first 12 + L bytes.
TrailingIgnored ==
    /\ (pc = "parsed_trailing" /\ ExactlySized(prevBuf)) =>
          /\ parsed.kind = prev.kind
          /\ parsed.kind = "Err" => parsed.msg = prev.msg
          /\ parsed.kind = "Ok" => SameChunk(parsed.val, prev.val)
    /\ (pc = "reserialized_trailing" /\ ExactlySized(prevBuf)) =>
          out = Ok(prevBuf)

TrailingIgnoredWitness ==
    /\ pc = "reserialized_trailing"
    /\ ExactlySized(prevBuf)
    /\ Len(buf) = Len(prevBuf) + MaxTrail
    /\ Len(prevBuf) > 12

====
